---- MODULE Spec2Model ----
(***************************************************************************)
(* Model of the two Streamlit applications of the repository:              *)
(*   src/1app.py  "Google Drive Podcast Studio"  (Drive folder setup,      *)
(*                upload, episode list kept in st.session_state)           *)
(*   src/app.py   "Professional Podcast Manager" (series / episodes /     *)
(*                guests lists and an in-memory SQLite connection)         *)
(* A browser session is a process.  A button click starts a script run;   *)
(* a script run that talks to Google Drive is a sequence of steps, one    *)
(* per HTTP request, and pc[s] is the request the run is about to send.   *)
(* When the handler has returned the run is "done": the page shows its     *)
(* result; the run's inputs, locals and request log are dropped when the   *)
(* script ends and the session waits for the next click ("idle").          *)
(***************************************************************************)
EXTENDS Integers, Sequences, FiniteSets, TLC

\* ------------------------------------------------------------------ bounds
MaxDriveObjects == 6    \* Drive answers non-200 (quota) beyond this many objects
MaxClock        == 2    \* the wall clock stops advancing here (in ticks)
TicksPerSecond  == 2    \* clock resolution: ticks per second
MaxEpisodes     == 1    \* cap on len(st.session_state.podcast_episodes)
MaxRows         == 2    \* cap on the length of each list of src/app.py
MaxRecords      == 2    \* cap on the rows of the three lists of src/app.py together
MaxHours        == 1    \* the token lifetimes that pass in a run of the model
MaxFaults       == 1    \* HTTP requests that fail (non-200 or exception) in a run of the model

\* ------------------------------------------------------------ input domains
Sessions == {"s1"}
AllSessions == Sessions \cup {"s2"}     \* with a second browser session
Titles   == {"a", "b"}                \* non-empty episode titles
TextIn   == {"", "x"}                 \* contents of an optional text widget
Outcomes == {"ok", "http_error", "exception"}

\* Python's None; ids returned by Drive are 1, 2, ...
None == 0

\* 'exp': now + 3600, the lifetime in seconds of an access token
TokenLifetime == 3600

VARIABLES
    drive,                \* Google Drive: sequence of objects, id = index
    clock,                \* wall clock, in ticks
    faults,               \* number of HTTP requests that have failed so far
    gdrive_authenticated, \* st.session_state.gdrive_authenticated, per session
    access_token,         \* st.session_state.access_token
    service_account,      \* st.session_state.service_account: the fields of the
                          \* key file, {} for None (the code only tests its truth)
    folder_structure,     \* st.session_state.folder_structure (a dict)
    podcast_episodes,     \* st.session_state.podcast_episodes
    recordings,           \* st.session_state.recordings
    pc,                   \* position of the session's running script
    frame,                \* clicked widget, its inputs and the handler's locals
    log,                  \* HTTP requests sent by the running script
    confirm_shown,        \* the "Confirm Clear All" button is on the page
    sync_filter,          \* tab 2: value of the "Filter" selectbox
    search_query,         \* tab 2: value of the "Search episodes" text input
    podcast_series,       \* src/app.py: st.session_state.podcast_series
    episodes,             \* src/app.py: st.session_state.episodes
    guests,               \* src/app.py: st.session_state.guests
    db_conn,              \* src/app.py: rows of the tables of db_conn
    pro_run,              \* src/app.py: the widget whose click started the last run,
                          \* and whether that run replaced the contents of a list
    backup_file,          \* src/app.py: the last file saved by "Download Backup"
    set_restore_upload    \* src/app.py: the file uploader holds backup_file

driveVars == <<drive, clock, faults>>
authVars  == <<gdrive_authenticated, access_token, service_account>>
dataVars  == <<podcast_episodes, recordings>>
runVars   == <<pc, frame, log, confirm_shown>>
viewVars  == <<sync_filter, search_query>>
fileVars  == <<backup_file, set_restore_upload>>
proVars   == <<podcast_series, episodes, guests, db_conn, pro_run, fileVars>>
vars == <<driveVars, authVars, folder_structure, dataVars, runVars, viewVars, proVars>>

\* ------------------------------------------------------------------ helpers
folder_names == <<"Audio Recordings", "Episode Notes", "Transcripts", "Drafts">>

EmptyDict == [k \in {} |-> None]

\* dict.get(key): None when the key is absent
Get(d, k) == IF k \in DOMAIN d THEN d[k] ELSE None

\* datetime.now().strftime("%Y%m%d_%H%M%S"): the clock truncated to seconds
strftime(t) == t \div TicksPerSecond

\* A name on Drive is the tuple of the parts it is written from.
\* f"{episode_title}_{timestamp}.wav" / f"{episode_title}_{timestamp}_notes.txt"
\* (the timestamp has fixed width, so the string determines title and timestamp)
audio_filename(title, timestamp) == <<title, timestamp, ".wav">>
notes_filename(title, timestamp) == <<title, timestamp, "_notes.txt">>

\* the 'name' of a folder's metadata and of the query of folder_exists
FolderName(folder_name) == <<folder_name>>

IdleFrame == [widget |-> "none", idx |-> 0, title |-> "", notes |-> "",
              main_folder_id |-> None, subfolders |-> <<>>,
              audio_file_id |-> None, timestamp |-> 0]

\* locals of a handler go out of scope when it returns
DropLocals(f) == [f EXCEPT !.main_folder_id = None, !.subfolders = <<>>,
                           !.audio_file_id = None, !.timestamp = 0]

\* ------------------------------------------------------------ GoogleDriveAPI
\* every method returns None without sending anything when there is no token
\* the lifetime of the session's token is over: Drive answers 401
Expired(s) == access_token[s] # None /\ access_token[s] <= strftime(clock)

Answers(s) == IF access_token[s] = None THEN {"no_token"}
              ELSE IF Expired(s) THEN {"unauthorized"}
              ELSE IF faults < MaxFaults THEN Outcomes ELSE {"ok"}

\* the answers to a request that stores an object: Drive answers non-200
\* once its quota is used up
StoreAnswers(s) == IF access_token[s] = None \/ Expired(s)
                      \/ Len(drive) < MaxDriveObjects
                   THEN Answers(s)
                   ELSE (Answers(s) \ {"ok"}) \cup {"http_error"}

Failed(outcome) == outcome \in {"http_error", "exception"}

\* requests.get / requests.post: the request goes out and is answered
Sends(s, outcome, entry) ==
    /\ log' = IF outcome = "no_token" THEN log
              ELSE [log EXCEPT ![s] = Append(@, entry @@ [status |-> outcome])]
    /\ faults' = IF Failed(outcome) /\ faults < MaxFaults THEN faults + 1 ELSE faults

\* the folders of that name, under whatever parent
MatchesAnyParent(folder_name, parent_id) ==
    {i \in 1..Len(drive) :
        /\ drive[i].kind = "folder"
        /\ drive[i].name = FolderName(folder_name)}

\* the folders the query of folder_exists selects
Matches(folder_name, parent_id) ==
    {i \in 1..Len(drive) :
        /\ drive[i].kind = "folder"
        /\ drive[i].name = FolderName(folder_name)
        /\ (parent_id # None => drive[i].parent = parent_id)}

\* folder_exists: the values it can return (files[0] of an unordered result)
folder_exists(outcome, folder_name, parent_id) ==
    IF outcome = "ok" /\ Matches(folder_name, parent_id) # {}
    THEN Matches(folder_name, parent_id)
    ELSE {None}

\* create_folder / upload_file: the id of the new object on HTTP 200, else None
NewId == Len(drive) + 1

create_folder(outcome) == IF outcome = "ok" THEN NewId ELSE None

upload_file_any_status(outcome) == NewId

upload_file(outcome) == IF outcome = "ok" THEN NewId ELSE None

\* Drive stores the object of a request it answers with 200
Stored(outcome, obj) == IF outcome = "ok" THEN Append(drive, obj) ELSE drive

\* ------------------------------------------------------------------- Init
Init ==
    /\ drive = <<>>
    /\ clock = 0
    /\ faults = 0
    /\ gdrive_authenticated = [s \in AllSessions |-> FALSE]
    /\ access_token = [s \in AllSessions |-> None]
    /\ service_account = [s \in AllSessions |-> {}]
    /\ folder_structure = [s \in AllSessions |-> EmptyDict]
    /\ podcast_episodes = [s \in AllSessions |-> <<>>]
    /\ recordings = [s \in AllSessions |-> <<>>]
    /\ pc = [s \in AllSessions |-> "idle"]
    /\ frame = [s \in AllSessions |-> IdleFrame]
    /\ log = [s \in AllSessions |-> <<>>]
    /\ confirm_shown = [s \in AllSessions |-> FALSE]
    /\ sync_filter = [s \in AllSessions |-> "All Episodes"]
    /\ search_query = [s \in AllSessions |-> <<>>]
    /\ podcast_series = <<>>
    /\ episodes = <<>>
    /\ guests = <<>>
    /\ db_conn = [podcast_series |-> {}, episodes |-> {}, guests |-> {}]
    /\ pro_run = [widget |-> "none", replaced |-> FALSE]
    /\ backup_file = [saved |-> FALSE, data |-> <<>>,
                      made_from |-> [series |-> <<>>, episodes |-> <<>>, guests |-> <<>>]]
    /\ set_restore_upload = FALSE

\* a click starts a script run with the clicked widget and the form inputs
NewRun(s, widget, title, notes) ==
    frame' = [frame EXCEPT ![s] = [IdleFrame EXCEPT !.widget = widget,
                                     !.title = title, !.notes = notes]]

\* the script run ends: its inputs, locals and request log are dropped
ScriptEnds(s) ==
    /\ pc[s] = "done"
    /\ pc' = [pc EXCEPT ![s] = "idle"]
    /\ frame' = [frame EXCEPT ![s] = IdleFrame]
    /\ log' = [log EXCEPT ![s] = <<>>]
    /\ UNCHANGED <<driveVars, authVars, folder_structure, dataVars, confirm_shown, proVars, viewVars>>

\* the wall clock advances
Tick ==
    /\ clock < MaxClock
    /\ clock' = clock + 1
    /\ UNCHANGED <<drive, faults, authVars, folder_structure, dataVars, runVars, viewVars, proVars>>

\* ------------------------------------------------- sidebar: authentication
\* GoogleDriveAPI.get_access_token: the token on HTTP 200, None otherwise
\* (an exception is caught inside).  A token is identified by the second
\* at which it expires.
get_access_token(outcome) ==
    IF outcome = "ok" THEN strftime(clock) + TokenLifetime ELSE None

required_fields == {"private_key", "client_email", "project_id"}

\* a file is uploaded in the sidebar: it is JSON or not, and has some fields
Connect(s) ==
    /\ pc[s] = "idle"
    /\ ~gdrive_authenticated[s]
    /\ \E is_json \in BOOLEAN,
          service_account_info \in {required_fields, {"client_email", "project_id"}},
          outcome \in IF faults < MaxFaults THEN Outcomes ELSE {"ok"} :
         IF ~is_json \/ ~(required_fields \subseteq service_account_info)
         THEN UNCHANGED <<authVars, faults>>
         ELSE LET token == get_access_token(outcome) IN
              /\ faults' = IF Failed(outcome) THEN faults + 1 ELSE faults
              /\ service_account' = [service_account EXCEPT ![s] = service_account_info]
              /\ IF token # None
                 THEN /\ access_token' = [access_token EXCEPT ![s] = token]
                      /\ gdrive_authenticated' =
                             [gdrive_authenticated EXCEPT ![s] = TRUE]
                 ELSE UNCHANGED <<access_token, gdrive_authenticated>>
    /\ NewRun(s, "service_account_json", "", "")
    /\ pc' = [pc EXCEPT ![s] = "done"]
    /\ confirm_shown' = [confirm_shown EXCEPT ![s] = FALSE]
    /\ UNCHANGED <<drive, clock, folder_structure, dataVars, log, proVars, viewVars>>

\* the Disconnect button
Disconnect(s) ==
    /\ pc[s] = "idle"
    /\ gdrive_authenticated[s]
    /\ gdrive_authenticated' = [gdrive_authenticated EXCEPT ![s] = FALSE]
    /\ access_token' = [access_token EXCEPT ![s] = None]
    /\ service_account' = [service_account EXCEPT ![s] = {}]
    /\ folder_structure' = [folder_structure EXCEPT ![s] = EmptyDict]
    /\ NewRun(s, "disconnect", "", "")
    /\ pc' = [pc EXCEPT ![s] = "done"]
    /\ confirm_shown' = [confirm_shown EXCEPT ![s] = FALSE]
    /\ UNCHANGED <<driveVars, dataVars, log, proVars, viewVars>>

\* --------------------------------------------------- setup_podcast_folders
\* setup_podcast_folders returns (fs is the folder structure it leaves in
\* the session state).  Called from a folder button the script run ends;
\* called from "Save to Google Drive" the handler goes on to name the files
\* and upload the audio.
SetupReturns(s, fs) ==
    /\ folder_structure' = [folder_structure EXCEPT ![s] = fs]
    /\ IF frame[s].widget = "save_drive"
       THEN /\ pc' = [pc EXCEPT ![s] = "upload_audio"]
            /\ frame' = [frame EXCEPT ![s] =
                   [DropLocals(@) EXCEPT !.timestamp = strftime(clock)]]
       ELSE /\ pc' = [pc EXCEPT ![s] = "done"]
            /\ frame' = [frame EXCEPT ![s] = DropLocals(@)]

\* the loop over folder_names stores folder_id and moves to the next name,
\* or, after the last one, writes the folder structure and returns it
SubfolderDone(s, folder_id) ==
    LET subfolders == Append(frame[s].subfolders, folder_id) IN
    IF Len(subfolders) < Len(folder_names)
    THEN /\ frame' = [frame EXCEPT ![s].subfolders = subfolders]
         /\ pc' = [pc EXCEPT ![s] = "sub_exists"]
         /\ UNCHANGED folder_structure
    ELSE SetupReturns(s,
            [k \in {"main"} \cup {folder_names[i] : i \in 1..Len(folder_names)} |->
                IF k = "main" THEN frame[s].main_folder_id
                ELSE subfolders[CHOOSE i \in 1..Len(folder_names) : folder_names[i] = k]])

\* "Setup/Verify Podcast Folders" in the sidebar, "Verify Folder Structure"
\* in the settings tab
ClickSetupFolders(s) ==
    /\ pc[s] = "idle"
    /\ gdrive_authenticated[s]
    /\ \E widget \in {"setup_folders", "verify_folders"} : NewRun(s, widget, "", "")
    /\ pc' = [pc EXCEPT ![s] = "main_exists"]
    /\ confirm_shown' = [confirm_shown EXCEPT ![s] = FALSE]
    /\ UNCHANGED <<driveVars, authVars, folder_structure, dataVars, log, proVars, viewVars>>

\* if not main_folder_id: create_folder(...), else go on to the subfolders
AfterMainExistsRetrying(outcome, main_folder_id) ==
    IF outcome = "http_error" THEN "main_exists"
    ELSE IF main_folder_id = None THEN "main_create" ELSE "sub_exists"

AfterMainExists(outcome, main_folder_id) ==
    IF main_folder_id = None THEN "main_create" ELSE "sub_exists"

\* main_folder_id = gdrive_api.folder_exists("Podcast Studio")
FolderExistsMain(s) ==
    /\ pc[s] = "main_exists"
    /\ \E outcome \in Answers(s) :
         /\ Sends(s, outcome, [req |-> "folder_exists",
                        name |-> FolderName("Podcast Studio"), parent |-> None])
         /\ IF outcome = "exception"
            THEN SetupReturns(s, folder_structure[s])
            ELSE \E main_folder_id \in folder_exists(outcome, "Podcast Studio", None) :
                   /\ frame' = [frame EXCEPT ![s].main_folder_id = main_folder_id]
                   /\ pc' = [pc EXCEPT ![s] = AfterMainExists(outcome, main_folder_id)]
                   /\ UNCHANGED folder_structure
    /\ UNCHANGED <<drive, clock, authVars, dataVars, confirm_shown, proVars, viewVars>>

\* main_folder_id = gdrive_api.create_folder("Podcast Studio")
CreateMain(s) ==
    /\ pc[s] = "main_create"
    /\ \E outcome \in StoreAnswers(s) :
         /\ Sends(s, outcome, [req |-> "create_folder",
                        name |-> FolderName("Podcast Studio"), parent |-> None])
         /\ drive' = Stored(outcome, [kind |-> "folder", name |-> FolderName("Podcast Studio"),
                                      parent |-> None])
         /\ IF outcome = "exception" \/ create_folder(outcome) = None
            THEN SetupReturns(s, folder_structure[s])
            ELSE /\ frame' = [frame EXCEPT ![s].main_folder_id = create_folder(outcome)]
                 /\ pc' = [pc EXCEPT ![s] = "sub_exists"]
                 /\ UNCHANGED folder_structure
    /\ UNCHANGED <<clock, authVars, dataVars, confirm_shown, proVars, viewVars>>

\* folder_id = gdrive_api.folder_exists(folder_name, main_folder_id)
FolderExistsSub(s) ==
    /\ pc[s] = "sub_exists"
    /\ LET folder_name == folder_names[Len(frame[s].subfolders) + 1] IN
       \E outcome \in Answers(s) :
         /\ Sends(s, outcome, [req |-> "folder_exists",
                        name |-> FolderName(folder_name), parent |-> frame[s].main_folder_id])
         /\ IF outcome = "exception"
            THEN SetupReturns(s, folder_structure[s])
            ELSE \E folder_id \in
                        folder_exists(outcome, folder_name, frame[s].main_folder_id) :
                   IF folder_id = None
                   THEN /\ pc' = [pc EXCEPT ![s] = "sub_create"]
                        /\ UNCHANGED <<frame, folder_structure>>
                   ELSE SubfolderDone(s, folder_id)
    /\ UNCHANGED <<drive, clock, authVars, dataVars, confirm_shown, proVars, viewVars>>

\* folder_id = gdrive_api.create_folder(folder_name, main_folder_id)
CreateSub(s) ==
    /\ pc[s] = "sub_create"
    /\ LET folder_name == folder_names[Len(frame[s].subfolders) + 1] IN
       \E outcome \in StoreAnswers(s) :
         /\ Sends(s, outcome, [req |-> "create_folder",
                        name |-> FolderName(folder_name), parent |-> frame[s].main_folder_id])
         /\ drive' = Stored(outcome, [kind |-> "folder", name |-> FolderName(folder_name),
                                      parent |-> frame[s].main_folder_id])
         /\ IF outcome = "exception"
            THEN SetupReturns(s, folder_structure[s])
            ELSE SubfolderDone(s, create_folder(outcome))
    /\ UNCHANGED <<clock, authVars, dataVars, confirm_shown, proVars, viewVars>>

\* ------------------------------------------------ tab 1: "Record Podcast"
\* the episode_data dict of both save buttons
episode_data(title, audio_file_id, notes_file_id) ==
    [title |-> title, audio_file_id |-> audio_file_id, notes_file_id |-> notes_file_id]

\* the end of the "Save to Google Drive" handler: if audio_file_id: append
SaveFinished(s, audio_file_id, notes_file_id) ==
    /\ podcast_episodes' = [podcast_episodes EXCEPT ![s] =
           IF audio_file_id # None
           THEN Append(@, episode_data(frame[s].title, audio_file_id, notes_file_id))
           ELSE @]
    /\ pc' = [pc EXCEPT ![s] = "done"]
    /\ frame' = [frame EXCEPT ![s] = DropLocals(@)]

\* except Exception as e: st.error(...)
SaveFailed(s) ==
    /\ pc' = [pc EXCEPT ![s] = "done"]
    /\ frame' = [frame EXCEPT ![s] = DropLocals(@)]
    /\ UNCHANGED podcast_episodes

\* "Save to Google Drive" (disabled while not connected)
ClickSaveDrive(s) ==
    /\ pc[s] = "idle"
    /\ gdrive_authenticated[s]
    /\ Len(podcast_episodes[s]) < MaxEpisodes
    /\ \E episode_title \in Titles \cup {""}, episode_notes \in TextIn :
         /\ NewRun(s, "save_drive", episode_title, episode_notes)
         /\ pc' = [pc EXCEPT ![s] =
                IF episode_title = "" THEN "done"
                ELSE IF DOMAIN folder_structure[s] = {} THEN "main_exists"
                ELSE "name_files"]
    /\ confirm_shown' = [confirm_shown EXCEPT ![s] = FALSE]
    /\ UNCHANGED <<driveVars, authVars, folder_structure, dataVars, log, proVars, viewVars>>

\* timestamp = datetime.now().strftime(...) when the folders were already set up
NameFiles(s) ==
    /\ pc[s] = "name_files"
    /\ SetupReturns(s, folder_structure[s])
    /\ UNCHANGED <<driveVars, authVars, dataVars, log, confirm_shown, proVars, viewVars>>

\* audio_file_id = gdrive.upload_file(audio_filename, ..., audio_folder_id)
UploadAudio(s) ==
    /\ pc[s] = "upload_audio"
    /\ LET audio_folder_id == Get(folder_structure[s], "Audio Recordings")
           file == [kind |-> "file", parent |-> audio_folder_id,
                    name |-> audio_filename(frame[s].title, frame[s].timestamp)]
       IN
       \E outcome \in StoreAnswers(s) :
         /\ Sends(s, outcome, [req |-> "upload_file", name |-> file.name,
                                     parent |-> audio_folder_id])
         /\ drive' = Stored(outcome, file)
         /\ IF outcome = "exception" THEN SaveFailed(s)
            ELSE IF frame[s].notes # ""
            THEN /\ frame' = [frame EXCEPT ![s].audio_file_id = upload_file(outcome)]
                 /\ pc' = [pc EXCEPT ![s] = "upload_notes"]
                 /\ UNCHANGED podcast_episodes
            ELSE SaveFinished(s, upload_file(outcome), None)
    /\ UNCHANGED <<clock, authVars, folder_structure, recordings, confirm_shown, proVars, viewVars>>

\* notes_file_id = gdrive.upload_file(notes_filename, ..., notes_folder_id)
UploadNotes(s) ==
    /\ pc[s] = "upload_notes"
    /\ LET notes_folder_id == Get(folder_structure[s], "Episode Notes")
           file == [kind |-> "file", parent |-> notes_folder_id,
                    name |-> notes_filename(frame[s].title, frame[s].timestamp)]
       IN
       \E outcome \in StoreAnswers(s) :
         /\ Sends(s, outcome, [req |-> "upload_file", name |-> file.name,
                                     parent |-> notes_folder_id])
         /\ drive' = Stored(outcome, file)
         /\ IF outcome = "exception" THEN SaveFailed(s)
            ELSE SaveFinished(s, frame[s].audio_file_id, upload_file(outcome))
    /\ UNCHANGED <<clock, authVars, folder_structure, recordings, confirm_shown, proVars, viewVars>>

\* "Save Locally Only"
ClickSaveLocal(s) ==
    /\ pc[s] = "idle"
    /\ Len(podcast_episodes[s]) < MaxEpisodes
    /\ \E episode_title \in Titles \cup {""}, episode_notes \in TextIn :
         /\ NewRun(s, "save_local", episode_title, episode_notes)
         /\ podcast_episodes' = [podcast_episodes EXCEPT ![s] =
                IF episode_title = "" THEN @
                ELSE Append(@, episode_data(episode_title, None, None))]
    /\ pc' = [pc EXCEPT ![s] = "done"]
    /\ confirm_shown' = [confirm_shown EXCEPT ![s] = FALSE]
    /\ UNCHANGED <<driveVars, authVars, folder_structure, recordings, log, proVars, viewVars>>

\* ----------------------------------------------- tab 2: "Episode Manager"
\* list.index(x): position of the first element equal to x
Index(list, x) == CHOOSE i \in 1..Len(list) :
                      list[i] = x /\ \A j \in 1..(i - 1) : list[j] # x

\* list.pop(i)
Pop(list, i) == [j \in 1..(Len(list) - 1) |-> IF j < i THEN list[j] ELSE list[j + 1]]

\* "Upload to Drive" of a local-only episode: st.info(...) and nothing else
ClickUploadToDrive(s) ==
    /\ pc[s] = "idle"
    /\ gdrive_authenticated[s]
    /\ \E idx \in 1..Len(podcast_episodes[s]) :
         /\ podcast_episodes[s][idx].audio_file_id = None
         /\ frame' = [frame EXCEPT ![s] =
                [IdleFrame EXCEPT !.widget = "upload_to_drive", !.idx = idx]]
    /\ pc' = [pc EXCEPT ![s] = "done"]
    /\ confirm_shown' = [confirm_shown EXCEPT ![s] = FALSE]
    /\ UNCHANGED <<driveVars, authVars, folder_structure, dataVars, log, proVars, viewVars>>

\* "Delete": podcast_episodes.pop(podcast_episodes.index(episode))
ClickDelete(s) ==
    /\ pc[s] = "idle"
    /\ \E idx \in 1..Len(podcast_episodes[s]) :
         /\ podcast_episodes' = [podcast_episodes EXCEPT ![s] =
                Pop(@, Index(@, podcast_episodes[s][idx]))]
         /\ frame' = [frame EXCEPT ![s] =
                [IdleFrame EXCEPT !.widget = "delete", !.idx = idx]]
    /\ pc' = [pc EXCEPT ![s] = "done"]
    /\ confirm_shown' = [confirm_shown EXCEPT ![s] = FALSE]
    /\ UNCHANGED <<driveVars, authVars, folder_structure, recordings, log, proVars, viewVars>>

\* ------------------------------------------------------ tab 4: "Settings"
\* The "Clear All Local Data" block of the script, run with `clicked` the
\* widget whose click started the run: st.button(...) is True only in the
\* run started by a click on that very button, and a widget is on the page
\* only if the run reaches the call that draws it.
ClearAllBlock(s, clicked) ==
    IF clicked = "clear_all"
    THEN IF podcast_episodes[s] # <<>>
         THEN /\ confirm_shown' = [confirm_shown EXCEPT ![s] = TRUE]
              /\ IF clicked = "confirm_clear"
                 THEN /\ podcast_episodes' = [podcast_episodes EXCEPT ![s] = <<>>]
                      /\ recordings' = [recordings EXCEPT ![s] = <<>>]
                 ELSE UNCHANGED dataVars
         ELSE /\ confirm_shown' = [confirm_shown EXCEPT ![s] = FALSE]
              /\ UNCHANGED dataVars
    ELSE /\ confirm_shown' = [confirm_shown EXCEPT ![s] = FALSE]
         /\ UNCHANGED dataVars

\* a click on "Clear All Local Data"
ClickClearAll(s) ==
    /\ pc[s] = "idle"
    /\ ClearAllBlock(s, "clear_all")
    /\ NewRun(s, "clear_all", "", "")
    /\ pc' = [pc EXCEPT ![s] = "done"]
    /\ UNCHANGED <<driveVars, authVars, folder_structure, log, proVars, viewVars>>

\* a click on "Confirm Clear All", which is on the page
ClickConfirmClear(s) ==
    /\ pc[s] = "idle"
    /\ confirm_shown[s]
    /\ ClearAllBlock(s, "confirm_clear")
    /\ NewRun(s, "confirm_clear", "", "")
    /\ pc' = [pc EXCEPT ![s] = "done"]
    /\ UNCHANGED <<driveVars, authVars, folder_structure, log, proVars, viewVars>>

\* ------------------------------------------------------------ specification
Next ==
    \/ \E s \in Sessions : Connect(s)
    \/ \E s \in Sessions : Disconnect(s)
    \/ \E s \in Sessions : ClickSetupFolders(s)
    \/ \E s \in Sessions : FolderExistsMain(s)
    \/ \E s \in Sessions : CreateMain(s)
    \/ \E s \in Sessions : FolderExistsSub(s)
    \/ \E s \in Sessions : CreateSub(s)
    \/ \E s \in Sessions : ClickSaveDrive(s)
    \/ \E s \in Sessions : NameFiles(s)
    \/ \E s \in Sessions : UploadAudio(s)
    \/ \E s \in Sessions : UploadNotes(s)
    \/ \E s \in Sessions : ClickSaveLocal(s)
    \/ \E s \in Sessions : ClickUploadToDrive(s)
    \/ \E s \in Sessions : ClickDelete(s)
    \/ \E s \in Sessions : ClickClearAll(s)
    \/ \E s \in Sessions : ClickConfirmClear(s)
    \/ \E s \in Sessions : ScriptEnds(s)

\* the sessions at work, every script run within one tick of the clock
Spec == Init /\ [][Next]_vars

\* the sessions at work while the wall clock advances
NextTimed ==
    \/ Tick
    \/ Next

SpecTimed == Init /\ [][NextTimed]_vars

\* the lifetime of a token passes
HourPasses ==
    /\ strftime(clock) < MaxHours * TokenLifetime
    /\ clock' = clock + TokenLifetime * TicksPerSecond
    /\ UNCHANGED <<drive, faults, authVars, folder_structure, dataVars, runVars, viewVars, proVars>>

NextHours ==
    \/ HourPasses
    \/ Next

\* the sessions at work over hours
SpecHours == Init /\ [][NextHours]_vars

\* two sessions, connected with the same service account, set up the
\* folders; every request is answered with HTTP 200
ConnectAnswered(s) == Connect(s) /\ faults' = 0

FolderExistsMainAnswered(s) == FolderExistsMain(s) /\ faults' = 0

CreateMainAnswered(s) == CreateMain(s) /\ faults' = 0

FolderExistsSubAnswered(s) == FolderExistsSub(s) /\ faults' = 0

CreateSubAnswered(s) == CreateSub(s) /\ faults' = 0

NextSetup ==
    \/ \E s \in AllSessions : ConnectAnswered(s)
    \/ \E s \in AllSessions : ClickSetupFolders(s)
    \/ \E s \in AllSessions : FolderExistsMainAnswered(s)
    \/ \E s \in AllSessions : CreateMainAnswered(s)
    \/ \E s \in AllSessions : FolderExistsSubAnswered(s)
    \/ \E s \in AllSessions : CreateSubAnswered(s)
    \/ \E s \in AllSessions : ScriptEnds(s)

SpecSetup == Init /\ [][NextSetup]_vars

(***************************************************************************)
(* src/app.py: Professional Podcast Manager.  init_database() opens an    *)
(* in-memory SQLite connection and creates the tables; db_conn holds the  *)
(* rows of the three tables the lists correspond to.                       *)
(***************************************************************************)
SeriesNames   == {"p", "q"}
EpisodeStatus == {"draft", "scheduled", "published"}

\* list.remove(x): drops the first element equal to x
Remove(list, x) == Pop(list, Index(list, x))

\* a click starts a script run; widgets that the run does not render (the
\* confirmation checkbox of "Clear All Data") are gone from the page
ProRun(widget) == pro_run' = [widget |-> widget, replaced |-> FALSE]

\* "Create Series" (name and author are required)
CreateSeries ==
    /\ ProRun("create_series")
    /\ Len(podcast_series) < MaxRows
    /\ \E series_name \in SeriesNames \cup {""} :
         podcast_series' =
             IF series_name # ""
             THEN Append(podcast_series,
                         [id |-> Len(podcast_series) + 1, name |-> series_name])
             ELSE podcast_series
    /\ UNCHANGED <<driveVars, authVars, folder_structure, dataVars, runVars, viewVars,
                   episodes, guests, db_conn, fileVars>>

\* "Delete" of a series, on the dashboard or in "Manage Series"
DeleteSeries ==
    /\ ProRun("delete_series")
    /\ \E i \in 1..Len(podcast_series) :
         podcast_series' = Remove(podcast_series, podcast_series[i])
    /\ UNCHANGED <<driveVars, authVars, folder_structure, dataVars, runVars, viewVars,
                   episodes, guests, db_conn, fileVars>>

\* series_id = next((s.get('id') for s in ... if s.get('name') == selected), None)
SeriesIdOf(selected_series) ==
    podcast_series[CHOOSE i \in 1..Len(podcast_series) :
        /\ podcast_series[i].name = selected_series
        /\ \A j \in 1..(i - 1) : podcast_series[j].name # selected_series].id

\* "Save Episode" (shown once a series exists and an audio file is uploaded)
SaveEpisode ==
    /\ ProRun("save_episode")
    /\ Len(episodes) < MaxRows
    /\ \E k \in 1..Len(podcast_series), episode_title \in Titles \cup {""},
          episode_status \in EpisodeStatus :
         episodes' =
             IF episode_title # ""
             THEN Append(episodes,
                         [id |-> Len(episodes) + 1,
                          series_id |-> SeriesIdOf(podcast_series[k].name),
                          title |-> episode_title, status |-> episode_status])
             ELSE episodes
    /\ UNCHANGED <<driveVars, authVars, folder_structure, dataVars, runVars, viewVars,
                   podcast_series, guests, db_conn, fileVars>>

\* "Delete" of an episode in "Manage Episodes"
DeleteEpisode ==
    /\ ProRun("delete_episode")
    /\ \E i \in 1..Len(episodes) : episodes' = Remove(episodes, episodes[i])
    /\ UNCHANGED <<driveVars, authVars, folder_structure, dataVars, runVars, viewVars,
                   podcast_series, guests, db_conn, fileVars>>

\* "Update All Episodes": for ep in episodes: ep['status'] = new_status
UpdateAllEpisodes ==
    /\ ProRun("update_all_episodes")
    /\ podcast_series # <<>>
    /\ \E new_status \in EpisodeStatus :
         episodes' = [i \in 1..Len(episodes) |->
                         [episodes[i] EXCEPT !.status = new_status]]
    /\ UNCHANGED <<driveVars, authVars, folder_structure, dataVars, runVars, viewVars,
                   podcast_series, guests, db_conn, fileVars>>

\* "Add Guest" (name and email are required)
AddGuest ==
    /\ ProRun("add_guest")
    /\ Len(guests) < MaxRows
    /\ \E guest_name \in {"", "g", "h"} :
         guests' = IF guest_name # ""
                   THEN Append(guests, [id |-> Len(guests) + 1, name |-> guest_name])
                   ELSE guests
    /\ UNCHANGED <<driveVars, authVars, folder_structure, dataVars, runVars, viewVars,
                   podcast_series, episodes, db_conn, fileVars>>

\* "Delete" of a guest in the guest directory
DeleteGuest ==
    /\ ProRun("delete_guest")
    /\ \E i \in 1..Len(guests) : guests' = Remove(guests, guests[i])
    /\ UNCHANGED <<driveVars, authVars, folder_structure, dataVars, runVars, viewVars,
                   podcast_series, episodes, db_conn, fileVars>>

NextPro ==
    \/ CreateSeries
    \/ DeleteSeries
    \/ SaveEpisode
    \/ DeleteEpisode
    \/ UpdateAllEpisodes
    \/ AddGuest
    \/ DeleteGuest

SpecPro == Init /\ [][NextPro]_vars

(***************************************************************************)
(* src/app.py, Settings: "Clear All Data", "Create Full Backup" and        *)
(* "Restore Backup".                                                       *)
(***************************************************************************)
\* the block of "Clear All Data": the checkbox is a widget inside the
\* button's `if`; the lists are cleared when both return True in one run
ClearAllDataBlock(clicked, checked) ==
    IF clicked /\ checked
    THEN /\ podcast_series' = <<>>
         /\ episodes' = <<>>
         /\ guests' = <<>>
    ELSE UNCHANGED <<podcast_series, episodes, guests>>

\* click on "Clear All Data": the button returns True and the checkbox, a
\* widget new on the page, is rendered with its default value False
ClickClearAllData ==
    /\ ProRun("clear_all_data")
    /\ ClearAllDataBlock(TRUE, FALSE)
    /\ UNCHANGED <<driveVars, authVars, folder_structure, dataVars, runVars, viewVars,
                   db_conn, fileVars>>

\* tick of "I understand this will delete all data": the run it starts has
\* the button False, so the block with the checkbox is not executed
TickClearConfirm ==
    /\ pro_run.widget = "clear_all_data"
    /\ ProRun("set_clear_confirm")
    /\ ClearAllDataBlock(FALSE, TRUE)
    /\ UNCHANGED <<driveVars, authVars, folder_structure, dataVars, runVars, viewVars,
                   db_conn, fileVars>>

\* the keys whose values are Python ints; all other values are str
IntFields == {"id", "series_id"}

\* json.dumps of one value: a JSON number or a JSON string
json_dumps_value(key, value) ==
    IF key \in IntFields THEN [type |-> "number", n |-> value, s |-> ""]
                          ELSE [type |-> "string", n |-> 0, s |-> value]

\* json.dumps of a list of dicts: an array of objects
json_dumps_list(list) ==
    [i \in 1..Len(list) |->
        [key \in DOMAIN list[i] |-> json_dumps_value(key, list[i][key])]]

\* json.dumps(backup_data, indent=2)
json_dumps(backup_data) ==
    [key \in DOMAIN backup_data |->
        IF key = "version" THEN <<json_dumps_value(key, backup_data[key])>>
                           ELSE json_dumps_list(backup_data[key])]

\* json.load of one value: a JSON number gives an int, a JSON string a str
json_load_value(token) == IF token.type = "number" THEN token.n ELSE token.s

json_load_list(array) ==
    [i \in 1..Len(array) |->
        [key \in DOMAIN array[i] |-> json_load_value(array[i][key])]]

\* json.load(backup_file)
json_load(data) ==
    [key \in DOMAIN data |->
        IF key = "version" THEN json_load_value(data[key][1])
                           ELSE json_load_list(data[key])]

\* click on "Create Full Backup": backup_data is built and offered by the
\* download button; no state of the session changes
CreateFullBackup ==
    /\ ProRun("create_full_backup")
    /\ UNCHANGED <<driveVars, authVars, folder_structure, dataVars, runVars, viewVars,
                   podcast_series, episodes, guests, db_conn, fileVars>>

\* click on "Download Backup", offered by the run of "Create Full Backup":
\* the browser saves json.dumps(backup_data) of that run (the lists have not
\* changed since); the user does this with an empty file uploader
DownloadBackup ==
    /\ pro_run.widget = "create_full_backup"
    /\ ~set_restore_upload
    /\ ProRun("download_backup")
    /\ LET backup_data == [version |-> "1.0", series |-> podcast_series,
                           episodes |-> episodes, guests |-> guests]
       IN backup_file' = [saved |-> TRUE, data |-> json_dumps(backup_data),
                          made_from |-> [series |-> podcast_series,
                                         episodes |-> episodes,
                                         guests |-> guests]]
    /\ UNCHANGED <<driveVars, authVars, folder_structure, dataVars, runVars, viewVars,
                   podcast_series, episodes, guests, db_conn, set_restore_upload>>

\* the saved backup file is put into "Upload backup file"
UploadBackup ==
    /\ backup_file.saved
    /\ ~set_restore_upload
    /\ ProRun("set_restore_upload")
    /\ set_restore_upload' = TRUE
    /\ UNCHANGED <<driveVars, authVars, folder_structure, dataVars, runVars, viewVars,
                   podcast_series, episodes, guests, db_conn, backup_file>>

\* the file is removed from the uploader
RemoveUpload ==
    /\ set_restore_upload
    /\ ProRun("set_restore_upload")
    /\ set_restore_upload' = FALSE
    /\ UNCHANGED <<driveVars, authVars, folder_structure, dataVars, runVars, viewVars,
                   podcast_series, episodes, guests, db_conn, backup_file>>

\* backup_data.get(key, []), always the default
backup_data_get_default(backup_data, key) == <<>>

\* backup_data.get(key, [])
backup_data_get(backup_data, key) ==
    IF key \in DOMAIN backup_data THEN backup_data[key] ELSE <<>>

\* click on "Restore Backup", rendered while the uploader holds a file that
\* json.load accepts
RestoreBackup ==
    /\ set_restore_upload
    /\ LET backup_data == json_load(backup_file.data)
       IN /\ podcast_series' = backup_data_get(backup_data, "series")
          /\ episodes' = backup_data_get(backup_data, "episodes")
          /\ guests' = backup_data_get(backup_data, "guests")
    /\ pro_run' = [widget |-> "restore_backup",
                   replaced |-> <<podcast_series, episodes, guests>>
                                # <<podcast_series', episodes', guests'>>]
    /\ UNCHANGED <<driveVars, authVars, folder_structure, dataVars, runVars, viewVars,
                   db_conn, fileVars>>

\* rows of the three lists together
Records(series, eps, gs) == Len(series) + Len(eps) + Len(gs)

\* the clicks that add a row, while the lists hold at most MaxRecords rows
BoundedCreateSeries ==
    CreateSeries /\ Records(podcast_series', episodes', guests') <= MaxRecords

BoundedSaveEpisode ==
    SaveEpisode /\ Records(podcast_series', episodes', guests') <= MaxRecords

BoundedAddGuest ==
    AddGuest /\ Records(podcast_series', episodes', guests') <= MaxRecords

NextProData ==
    \/ BoundedCreateSeries
    \/ DeleteSeries
    \/ BoundedSaveEpisode
    \/ DeleteEpisode
    \/ UpdateAllEpisodes
    \/ BoundedAddGuest
    \/ DeleteGuest
    \/ ClickClearAllData
    \/ TickClearConfirm
    \/ CreateFullBackup
    \/ DownloadBackup
    \/ UploadBackup
    \/ RemoveUpload
    \/ RestoreBackup

\* the Professional app with its data management, the lists holding at most
\* MaxRecords rows together
SpecProData == Init /\ [][NextProData]_vars

(***************************************************************************)
(* Properties                                                              *)
(***************************************************************************)
FolderNameSet == {"Podcast Studio"} \cup {folder_names[i] : i \in 1..Len(folder_names)}

\* the requests of one kind the running script has sent
Requests(s, req) == {k \in 1..Len(log[s]) : log[s][k].req = req}

Uploads(s, ext) == {k \in Requests(s, "upload_file") : log[s][k].name[3] = ext}

\* the handler of `widget` has returned and its result is on the page
Returned(s, widget) == pc[s] = "done" /\ frame[s].widget = widget

Last(list) == list[Len(list)]

\* the subfolder setup_podcast_folders is working on
CurrentSubfolder(s) == folder_names[Len(frame[s].subfolders) + 1]

\* C1: create_folder is called for 'Podcast Studio' or for a subfolder only
\* when Drive holds no folder of that name under the intended parent.
C1_CreatesOnlyMissingFolders ==
    \A s \in Sessions :
      /\ pc[s] = "main_create" => Matches("Podcast Studio", None) = {}
      /\ pc[s] = "sub_create" =>
             Matches(CurrentSubfolder(s), frame[s].main_folder_id) = {}

\* C2: when "Save to Google Drive" was clicked with a title and the audio
\* upload failed, the episode is in podcast_episodes as a local-only episode.
C2_FailedUploadIsSavedLocally ==
    \A s \in Sessions :
      ( /\ Returned(s, "save_drive")
        /\ \E k \in Uploads(s, ".wav") : log[s][k].status # "ok" )
      => /\ podcast_episodes[s] # <<>>
         /\ Last(podcast_episodes[s]) = episode_data(frame[s].title, None, None)

\* C3: a click on "Upload to Drive" of a local-only episode sends its audio
\* to Drive and, when Drive accepts it, the episode has an audio_file_id.
C3_UploadToDriveSyncsEpisode ==
    \A s \in Sessions :
      Returned(s, "upload_to_drive") =>
        /\ Uploads(s, ".wav") # {}
        /\ (\E k \in Uploads(s, ".wav") : log[s][k].status = "ok")
              => podcast_episodes[s][frame[s].idx].audio_file_id # None

\* C4: every audio upload request carries the id of an 'Audio Recordings'
\* folder as parent and every notes upload request the id of an
\* 'Episode Notes' folder.
C4_UploadsGoToDesignatedFolder ==
    \A s \in Sessions : \A k \in Requests(s, "upload_file") :
      LET r == log[s][k] IN
      /\ r.parent \in 1..Len(drive)
      /\ drive[r.parent].kind = "folder"
      /\ drive[r.parent].name =
             FolderName(IF r.name[3] = ".wav" THEN "Audio Recordings" ELSE "Episode Notes")

\* C5: an episode's non-empty audio_file_id is the id of an audio file that
\* Drive stored (answered 200) for an upload of that episode's title, and the
\* episode "Save Locally Only" stores has no audio_file_id and no notes_file_id.
C5_FileIdsComeFromSuccessfulUploads ==
    \A s \in Sessions :
      /\ \A i \in 1..Len(podcast_episodes[s]) :
           LET e == podcast_episodes[s][i] IN
           e.audio_file_id # None =>
             /\ e.audio_file_id \in 1..Len(drive)
             /\ drive[e.audio_file_id].kind = "file"
             /\ drive[e.audio_file_id].name[1] = e.title
             /\ drive[e.audio_file_id].name[3] = ".wav"
      /\ (Returned(s, "save_local") /\ frame[s].title # "") =>
             /\ Last(podcast_episodes[s]).audio_file_id = None
             /\ Last(podcast_episodes[s]).notes_file_id = None

\* "Save to Google Drive" has stored an episode with the ids of its audio
\* and notes files although a request of that run failed
C5_Witness ==
    \E s \in Sessions :
      /\ Returned(s, "save_drive")
      /\ \E k \in 1..Len(log[s]) : log[s][k].status # "ok"
      /\ podcast_episodes[s] # <<>>
      /\ Last(podcast_episodes[s]).audio_file_id # None
      /\ Last(podcast_episodes[s]).notes_file_id # None

\* C6: one script run sends at most one upload request for the audio, at most
\* one for the notes and, per folder name, at most one existence query and at
\* most one create request.
C6_NoRequestIsRepeated ==
    \A s \in Sessions :
      /\ Cardinality(Uploads(s, ".wav")) <= 1
      /\ Cardinality(Uploads(s, "_notes.txt")) <= 1
      /\ \A n \in FolderNameSet :
           /\ Cardinality({k \in Requests(s, "folder_exists") : log[s][k].name = FolderName(n)}) <= 1
           /\ Cardinality({k \in Requests(s, "create_folder") : log[s][k].name = FolderName(n)}) <= 1

\* a "Save to Google Drive" run has returned after a request of it failed
\* and later requests were still sent
C6_Witness ==
    \E s \in Sessions :
      /\ Returned(s, "save_drive")
      /\ \E k \in 1..Len(log[s]) : log[s][k].status # "ok" /\ k < Len(log[s])

\* C7: the rows of the tables podcast_series, episodes and guests mirror the
\* session lists.
C7_TablesMirrorLists ==
    /\ db_conn.podcast_series = {podcast_series[i] : i \in 1..Len(podcast_series)}
    /\ db_conn.episodes = {episodes[i] : i \in 1..Len(episodes)}
    /\ db_conn.guests = {guests[i] : i \in 1..Len(guests)}

\* C8: while Google Drive is connected, every episode that is stored (by
\* either save button) is stored with a non-empty audio_file_id.
C8_ConnectedSavesAreSynced ==
    [][\A s \in Sessions :
         ( /\ gdrive_authenticated[s]
           /\ Len(podcast_episodes'[s]) > Len(podcast_episodes[s]) )
         => Last(podcast_episodes'[s]).audio_file_id # None]_vars

\* C9: the audio file name a "Save to Google Drive" run is about to upload
\* differs from the name of every file an earlier save put on Drive.
C9_FilenamesNeverCollide ==
    \A s \in Sessions :
      pc[s] = "upload_audio" =>
        \A i \in 1..Len(drive) :
          drive[i].kind = "file" =>
            drive[i].name # audio_filename(frame[s].title, frame[s].timestamp)

\* C10: after "Confirm Clear All" was clicked podcast_episodes and recordings
\* are empty, and the click on "Clear All Local Data" alone empties nothing.
C10_ConfirmClearEmptiesLists ==
    \A s \in Sessions :
      /\ Returned(s, "confirm_clear") =>
             podcast_episodes[s] = <<>> /\ recordings[s] = <<>>
      /\ (Returned(s, "clear_all") /\ confirm_shown[s]) => podcast_episodes[s] # <<>>

\* C11: the run started by ticking "I understand this will delete all data"
\* after a click on "Clear All Data" leaves the three lists empty, and a
\* click on "Clear All Data" alone leaves them unchanged.
C11_ConfirmedClearEmptiesLists ==
    [][/\ TickClearConfirm =>
            (podcast_series' = <<>> /\ episodes' = <<>> /\ guests' = <<>>)
       /\ ClickClearAllData =>
            UNCHANGED <<podcast_series, episodes, guests>>]_vars

\* C12: "Restore Backup" sets the three lists to the values they had when
\* the restored file was created by "Create Full Backup".
C12_RestoreGivesBackedUpLists ==
    pro_run.widget = "restore_backup" =>
        /\ podcast_series = backup_file.made_from.series
        /\ episodes = backup_file.made_from.episodes
        /\ guests = backup_file.made_from.guests

\* a backup with a series and an episode was restored over lists that had
\* changed since it was made
C12_Witness ==
    /\ pro_run.widget = "restore_backup"
    /\ pro_run.replaced
    /\ podcast_series # <<>>
    /\ episodes # <<>>

\* C13: every request a session sends to Drive carries an access token
\* whose lifetime is not over, however long ago the session connected.
C13_RequestsCarryValidToken ==
    \A s \in Sessions : \A k \in 1..Len(log[s]) : log[s][k].status # "unauthorized"

\* the folders of a name directly under a parent (None: the root)
FoldersNamed(folder_name, parent_id) ==
    {i \in 1..Len(drive) : drive[i] = [kind |-> "folder",
                                       name |-> FolderName(folder_name),
                                       parent |-> parent_id]}

\* setup_podcast_folders has returned a folder structure to the session
SetupDone(s) ==
    /\ pc[s] = "done"
    /\ frame[s].widget \in {"setup_folders", "verify_folders"}
    /\ DOMAIN folder_structure[s] # {}

MaxShown == 2        \* stored episodes in the Episode Manager runs

\* text is a sequence of characters
str_lower_char(c) == IF c = "A" THEN "a" ELSE IF c = "B" THEN "b" ELSE c

\* str.lower()
str_lower(str) == [i \in 1..Len(str) |-> str_lower_char(str[i])]

\* Python's  x in y  on two strings
str_in(x, y) == \E i \in 0..(Len(y) - Len(x)) : SubSeq(y, i + 1, i + Len(x)) = x

\* e.get('audio_file_id') as a condition
audio_file_id_truthy(e) == e.audio_file_id # None

\* any(search_lower in tag.lower() for tag in e.get('tags', []))
any_tag(search_lower, e) ==
    \E k \in 1..Len(e.tags) : str_in(search_lower, str_lower(e.tags[k]))

\* a search that looks at the title only
search_keeps_title_only(search_lower, e) == str_in(search_lower, str_lower(e.title))

\* the condition of the search comprehension
search_keeps(search_lower, e) ==
    \/ str_in(search_lower, str_lower(e.title))
    \/ str_in(search_lower, str_lower(e.description))
    \/ any_tag(search_lower, e)

\* the options of the "Filter" selectbox
sync_filter_options == {"All Episodes", "Synced to Drive", "Local Only"}

\* the list the Episode Manager computes from the stored episodes
filter_episodes(stored, filter, query) ==
    LET synced(e) == audio_file_id_truthy(e)
        local(e) == ~audio_file_id_truthy(e)
        by_sync == IF filter = "Synced to Drive" THEN SelectSeq(stored, synced)
                   ELSE IF filter = "Local Only" THEN SelectSeq(stored, local)
                   ELSE stored
        search_lower == str_lower(query)
        found(e) == search_keeps(search_lower, e)
    IN  IF query # <<>> THEN SelectSeq(by_sync, found) ELSE by_sync

\* what the page of session s shows
filtered_episodes(s) == filter_episodes(podcast_episodes[s], sync_filter[s], search_query[s])

RECURSIVE count_truthy(_)
\* sum(1 for e in podcast_episodes if e.get('audio_file_id'))
count_truthy(list) ==
    IF list = <<>> THEN 0
    ELSE (IF audio_file_id_truthy(Head(list)) THEN 1 ELSE 0) + count_truthy(Tail(list))

\* the Settings metrics
synced_count(s) == count_truthy(podcast_episodes[s])
local_only(s) == Len(podcast_episodes[s]) - synced_count(s)

\* sample texts of the episode form and the search box
SampleTitles == {<<"a">>, <<"A", "b">>, <<"b">>}
SampleDescriptions == {<<>>, <<"B", "a">>}
SampleTags == {<<>>, << <<"b">>, <<"A">> >>}
SampleQueries == {<<>>, <<"a">>, <<"B">>, <<"b", "a">>}

\* the episode dicts the save handlers store
SampleEpisodes ==
    [title : SampleTitles, description : SampleDescriptions, tags : SampleTags,
     audio_file_id : {None, 1}, notes_file_id : {None}]

\* a session that already holds episodes
InitManager ==
    /\ drive = <<>>
    /\ clock = 0
    /\ faults = 0
    /\ gdrive_authenticated = [s \in AllSessions |-> FALSE]
    /\ access_token = [s \in AllSessions |-> None]
    /\ service_account = [s \in AllSessions |-> {}]
    /\ folder_structure = [s \in AllSessions |-> EmptyDict]
    /\ \E n \in 0..MaxShown : \E stored \in [1..n -> SampleEpisodes] :
         podcast_episodes = [s \in AllSessions |-> IF s \in Sessions THEN stored ELSE <<>>]
    /\ recordings = [s \in AllSessions |-> <<>>]
    /\ pc = [s \in AllSessions |-> "idle"]
    /\ frame = [s \in AllSessions |-> IdleFrame]
    /\ log = [s \in AllSessions |-> <<>>]
    /\ confirm_shown = [s \in AllSessions |-> FALSE]
    /\ sync_filter = [s \in AllSessions |-> "All Episodes"]
    /\ search_query = [s \in AllSessions |-> <<>>]
    /\ podcast_series = <<>>
    /\ episodes = <<>>
    /\ guests = <<>>
    /\ db_conn = [podcast_series |-> {}, episodes |-> {}, guests |-> {}]
    /\ pro_run = [widget |-> "none", replaced |-> FALSE]
    /\ backup_file = [saved |-> FALSE, data |-> <<>>,
                      made_from |-> [series |-> <<>>, episodes |-> <<>>, guests |-> <<>>]]
    /\ set_restore_upload = FALSE

\* the user picks another option of the "Filter" selectbox
SelectSyncFilter(s) ==
    /\ pc[s] = "idle"
    /\ \E option \in sync_filter_options \ {sync_filter[s]} :
         sync_filter' = [sync_filter EXCEPT ![s] = option]
    /\ NewRun(s, "sync_filter", "", "")
    /\ pc' = [pc EXCEPT ![s] = "done"]
    /\ confirm_shown' = [confirm_shown EXCEPT ![s] = FALSE]
    /\ UNCHANGED <<driveVars, authVars, folder_structure, dataVars, log, search_query, proVars>>

\* the user changes the text of "Search episodes"
TypeSearch(s) ==
    /\ pc[s] = "idle"
    /\ \E text \in SampleQueries \ {search_query[s]} :
         search_query' = [search_query EXCEPT ![s] = text]
    /\ NewRun(s, "ep_search", "", "")
    /\ pc' = [pc EXCEPT ![s] = "done"]
    /\ confirm_shown' = [confirm_shown EXCEPT ![s] = FALSE]
    /\ UNCHANGED <<driveVars, authVars, folder_structure, dataVars, log, sync_filter, proVars>>

NextManager ==
    \E s \in Sessions :
        \/ SelectSyncFilter(s)
        \/ TypeSearch(s)
        \/ ScriptEnds(s)

SpecManager == InitManager /\ [][NextManager]_vars

\* the stored episode at position i satisfies the sync filter and the search
ShouldShow(s, i) ==
    LET e == podcast_episodes[s][i]
        q == str_lower(search_query[s])
    IN  /\ \/ sync_filter[s] = "All Episodes"
           \/ sync_filter[s] = "Synced to Drive" /\ e.audio_file_id # None
           \/ sync_filter[s] = "Local Only" /\ e.audio_file_id = None
        /\ \/ str_in(q, str_lower(e.title))
           \/ str_in(q, str_lower(e.description))
           \/ \E k \in 1..Len(e.tags) : str_in(q, str_lower(e.tags[k]))

====
